---------------------------- MODULE Spec2Model ----------------------------
(***************************************************************************)
(* A model of src/json.rs: the JSON value tree (JsonDtype / Num / Json),   *)
(* the recursive-descent parser over a peekable character cursor, the      *)
(* compact and pretty serializers, the Hash implementation and the Object  *)
(* (Json) map API.                                                         *)
(*                                                                         *)
(* Representation.                                                         *)
(*  - A text is a sequence of one-character strings.                       *)
(*  - A JsonDtype is a record with the same fields for every variant; the  *)
(*    fields a variant does not use hold fixed defaults.                   *)
(*  - An i128 is a sign and a decimal digit sequence (no leading zeros),   *)
(*    so the 128-bit range is kept exactly.                                *)
(*  - An f64 is sign, decimal mantissa digits (no leading or trailing      *)
(*    zeros) and a decimal exponent: value = mantissa * 10^exp.  Within    *)
(*    the literal lengths used here (fewer than 15 significant digits,     *)
(*    exponents far below 308) decimal -> f64 -> shortest decimal is the   *)
(*    identity, so this is the f64 the code holds.                         *)
(*  - A HashMap is the sequence of its entries in iteration order.  The    *)
(*    order is not under the program's control: a new key may land at any  *)
(*    position.                                                            *)
(***************************************************************************)
EXTENDS Integers, Sequences, FiniteSets, TLC

(***************************************************************************)
(* Bounds of the model.                                                    *)
(***************************************************************************)
MaxEntries == 2
MaxStrLen == 3
MaxNumLen == 3
MaxCommaToks == 5

(***************************************************************************)
(* Characters and small helpers on texts.                                  *)
(***************************************************************************)
DigitChars == <<"0", "1", "2", "3", "4", "5", "6", "7", "8", "9">>

IsDigit(c) == \E i \in 1..10 : DigitChars[i] = c

DigitVal(c) == (CHOOSE i \in 1..10 : DigitChars[i] = c) - 1

QUOTE == "\""

BSLASH == "\\"

IsWs(c) == c = " " \/ c = "\n" \/ c = "\t"

RECURSIVE Cat(_)
Cat(ss) == IF ss = <<>> THEN <<>> ELSE Head(ss) \o Cat(Tail(ss))

Prefix(s, n) == SubSeq(s, 1, n)

Suffix(s, n) == SubSeq(s, n + 1, Len(s))

Spaces(n) == [i \in 1..n |-> " "]

Zeros(n) == [i \in 1..n |-> "0"]

Contains(s, c) == \E i \in 1..Len(s) : s[i] = c

RECURSIVE StripLeadingZeros(_)
StripLeadingZeros(d) ==
    IF d # <<>> /\ Head(d) = "0" THEN StripLeadingZeros(Tail(d)) ELSE d

RECURSIVE StripTrailingZeros(_)
StripTrailingZeros(d) ==
    IF d # <<>> /\ d[Len(d)] = "0"
    THEN StripTrailingZeros(Prefix(d, Len(d) - 1))
    ELSE d

RECURSIVE DigitsToNat(_)
DigitsToNat(d) ==
    IF d = <<>> THEN 0
    ELSE 10 * DigitsToNat(Prefix(d, Len(d) - 1)) + DigitVal(d[Len(d)])

(* d1 <= d2 for two digit sequences without leading zeros. *)
RECURSIVE LexLeq(_, _)
LexLeq(d1, d2) ==
    IF d1 = <<>> THEN TRUE
    ELSE IF DigitVal(Head(d1)) < DigitVal(Head(d2)) THEN TRUE
    ELSE IF DigitVal(Head(d1)) > DigitVal(Head(d2)) THEN FALSE
    ELSE LexLeq(Tail(d1), Tail(d2))

MagLeq(d1, d2) ==
    Len(d1) < Len(d2) \/ (Len(d1) = Len(d2) /\ LexLeq(d1, d2))

(***************************************************************************)
(* skip_whitespaces: the cursor after the run of ' ', '\n', '\t' that      *)
(* starts at the character after pos.                                      *)
(***************************************************************************)
RECURSIVE skip_whitespaces(_, _)
skip_whitespaces(inp, pos) ==
    IF pos < Len(inp) /\ IsWs(inp[pos + 1])
    THEN skip_whitespaces(inp, pos + 1)
    ELSE pos

(***************************************************************************)
(* The value tree.  JsonDtype variants; a Json (Object) is the variant     *)
(* "Object" whose map field holds the entries.                             *)
(***************************************************************************)
Blank ==
    [tag |-> "None", s |-> <<>>, neg |-> FALSE, dig |-> <<>>, exp |-> 0,
     b |-> FALSE, arr |-> <<>>, map |-> <<>>]

NoValue == Blank

JString(chars) == [Blank EXCEPT !.tag = "String", !.s = chars]

JInteger(neg, dig) == [Blank EXCEPT !.tag = "Integer", !.neg = neg, !.dig = dig]

JFloat(neg, dig, exp) ==
    [Blank EXCEPT !.tag = "Float", !.neg = neg, !.dig = dig, !.exp = exp]

JBoolean(b) == [Blank EXCEPT !.tag = "Boolean", !.b = b]

JNull == [Blank EXCEPT !.tag = "Null"]

JArray(items) == [Blank EXCEPT !.tag = "Array", !.arr = items]

JObject(entries) == [Blank EXCEPT !.tag = "Object", !.map = entries]

Entry(k, v) == [k |-> k, v |-> v]

(***************************************************************************)
(* Num: text -> i128 (str::parse::<i128>) and text -> f64                  *)
(* (str::parse::<f64>), on the buffers parse_number can build: an optional *)
(* leading '-', then characters of 0..9 . e E.  A result is                *)
(* [ok, val]; ok = FALSE is the Err that unwrap() turns into a panic.      *)
(***************************************************************************)
I128_MAX_DIGITS ==
    <<
      "1", "7", "0", "1", "4", "1", "1", "8", "3", "4", "6", "0", "4",
      "6", "9", "2", "3", "1", "7", "3", "1", "6", "8", "7", "3", "0",
      "3", "7", "1", "5", "8", "8", "4", "1", "0", "5", "7", "2", "7"
    >>

I128_MIN_DIGITS ==
    <<
      "1", "7", "0", "1", "4", "1", "1", "8", "3", "4", "6", "0", "4",
      "6", "9", "2", "3", "1", "7", "3", "1", "6", "8", "7", "3", "0",
      "3", "7", "1", "5", "8", "8", "4", "1", "0", "5", "7", "2", "8"
    >>

Err == [ok |-> FALSE, val |-> NoValue]

Ok(v) == [ok |-> TRUE, val |-> v]

ParseI128(text) ==
    LET neg  == text # <<>> /\ Head(text) = "-"
        body == IF neg THEN Tail(text) ELSE text
        mag  == LET d == StripLeadingZeros(body) IN IF d = <<>> THEN <<"0">> ELSE d
    IN  IF body = <<>> \/ \E i \in 1..Len(body) : ~IsDigit(body[i]) THEN Err
        ELSE IF neg /\ ~MagLeq(mag, I128_MIN_DIGITS) THEN Err
        ELSE IF ~neg /\ ~MagLeq(mag, I128_MAX_DIGITS) THEN Err
        ELSE Ok(JInteger(neg /\ mag # <<"0">>, mag))

(* The index of the first occurrence of a character of cs in s, 0 if none. *)
IndexOf(s, cs) ==
    IF \E i \in 1..Len(s) : s[i] \in cs
    THEN CHOOSE i \in 1..Len(s) : s[i] \in cs /\ \A j \in 1..(i - 1) : s[j] \notin cs
    ELSE 0

(* mantissa digits and decimal exponent -> the f64, normalised *)
MkFloat(neg, digits, e10) ==
    LET lead == StripLeadingZeros(digits)
        mant == StripTrailingZeros(lead)
    IN  IF mant = <<>> THEN JFloat(neg, <<"0">>, 0)
        ELSE JFloat(neg, mant, e10 + (Len(lead) - Len(mant)))

ParseF64(text) ==
    LET neg   == text # <<>> /\ Head(text) = "-"
        body  == IF neg THEN Tail(text) ELSE text
        ePos  == IndexOf(body, {"e", "E"})
        num   == IF ePos = 0 THEN body ELSE Prefix(body, ePos - 1)
        expd  == IF ePos = 0 THEN <<>> ELSE Suffix(body, ePos)
        dot   == IndexOf(num, {"."})
        int   == IF dot = 0 THEN num ELSE Prefix(num, dot - 1)
        frac  == IF dot = 0 THEN <<>> ELSE Suffix(num, dot)
        allDigits(d) == \A i \in 1..Len(d) : IsDigit(d[i])
    IN  IF ~allDigits(int) \/ ~allDigits(frac) \/ ~allDigits(expd) THEN Err
        ELSE IF Len(int) + Len(frac) = 0 THEN Err
        ELSE IF ePos # 0 /\ expd = <<>> THEN Err
        ELSE Ok(MkFloat(neg, int \o frac, DigitsToNat(expd) - Len(frac)))

(***************************************************************************)
(* impl fmt::Display for Num: i128 and f64 with "{}".  An f64 is printed   *)
(* as the shortest decimal that reads back to it, never with an exponent,  *)
(* and without ".0" when it is integral ("{}" of 1.0 is "1", of -0.0 is    *)
(* "-0").                                                                  *)
(***************************************************************************)
DisplayNum(n) ==
    LET sign == IF n.neg THEN <<"-">> ELSE <<>>
        k    == Len(n.dig)
    IN  IF n.tag = "Integer" THEN sign \o n.dig
        ELSE IF n.exp >= 0 THEN sign \o n.dig \o Zeros(n.exp)
        ELSE IF k > -n.exp
             THEN sign \o Prefix(n.dig, k + n.exp) \o <<".">> \o Suffix(n.dig, k + n.exp)
             ELSE sign \o <<"0", ".">> \o Zeros(-n.exp - k) \o n.dig

(* #[derive(PartialEq)] on Num: i128 == and f64 == (0.0 == -0.0). *)
NumEq(a, b) ==
    /\ a.tag = b.tag
    /\ a.dig = b.dig
    /\ a.exp = b.exp
    /\ (a.neg = b.neg \/ (a.tag = "Float" /\ a.dig = <<"0">>))

(***************************************************************************)
(* Hashing.  A Hasher is modelled by the sequence of the values written    *)
(* to it: finish() is a function of that sequence, and two different       *)
(* sequences are taken to finish differently (no collisions).              *)
(***************************************************************************)
RECURSIVE NatDigits(_)
NatDigits(n) ==
    IF n < 10 THEN <<DigitChars[n + 1]>>
    ELSE NatDigits(n \div 10) \o <<DigitChars[(n % 10) + 1]>>

IntDigits(i) == IF i < 0 THEN <<"-">> \o NatDigits(-i) ELSE NatDigits(i)

(* impl Hash for Num: the i128, or the bit pattern of the f64 *)
HashNum(n) ==
    LET sign == IF n.neg THEN <<"-">> ELSE <<"+">>
    IN  IF n.tag = "Integer" THEN <<"i128">> \o sign \o n.dig
        ELSE <<"bits">> \o sign \o n.dig \o <<"e">> \o IntDigits(n.exp)

RECURSIVE HashDtype(_)
RECURSIVE HashJson(_)
(* #[derive(Hash)] on JsonDtype: the discriminant, then the payload *)
HashDtype(v) ==
    CASE v.tag = "String"  -> <<"d0">> \o v.s \o <<"0xff">>
      [] v.tag \in {"Integer", "Float"} -> <<"d1">> \o HashNum(v)
      [] v.tag = "Object"  -> <<"d2">> \o HashJson(v.map)
      [] v.tag = "Array"   ->
            <<"d3", "len">> \o NatDigits(Len(v.arr))
                \o Cat([i \in 1..Len(v.arr) |-> HashDtype(v.arr[i])])
      [] v.tag = "Boolean" -> <<"d4", IF v.b THEN "1" ELSE "0">>
      [] OTHER             -> <<"d5">>

(* impl Hash for Json: key and value of every entry, in iteration order *)
HashJson(map) ==
    Cat([i \in 1..Len(map) |-> HashDtype(map[i].k) \o HashDtype(map[i].v)])

(***************************************************************************)
(* Equality (#[derive(PartialEq)] on JsonDtype and Json) and the HashMap   *)
(* lookup: an entry is found by a key of the same hash that is equal.      *)
(***************************************************************************)
RECURSIVE JsonEq(_, _)
RECURSIVE Lookup(_, _)
RECURSIVE MapEq(_, _)

(* The index of key's entry in map, 0 when there is none. *)
Lookup(map, key) ==
    LET hits == {i \in 1..Len(map) :
                    HashDtype(map[i].k) = HashDtype(key) /\ JsonEq(map[i].k, key)}
    IN  IF hits = {} THEN 0 ELSE CHOOSE i \in hits : TRUE

(* HashMap == : same length, and every entry of a is found in b with an    *)
(* equal value                                                             *)
MapEq(a, b) ==
    /\ Len(a) = Len(b)
    /\ \A i \in 1..Len(a) :
          LET j == Lookup(b, a[i].k)
          IN  j # 0 /\ JsonEq(a[i].v, b[j].v)

JsonEq(a, b) ==
    /\ a.tag = b.tag
    /\ CASE a.tag = "String"  -> a.s = b.s
         [] a.tag \in {"Integer", "Float"} -> NumEq(a, b)
         [] a.tag = "Object"  -> MapEq(a.map, b.map)
         [] a.tag = "Array"   ->
               /\ Len(a.arr) = Len(b.arr)
               /\ \A i \in 1..Len(a.arr) : JsonEq(a.arr[i], b.arr[i])
         [] a.tag = "Boolean" -> a.b = b.b
         [] OTHER             -> TRUE

(***************************************************************************)
(* The Object (Json) map API.                                              *)
(***************************************************************************)
(* a mutant of InsertAt: the entry is added without looking the key up *)
InsertAtNoLookup(map, key, value, at) ==
    Prefix(map, at - 1) \o <<Entry(key, value)>> \o Suffix(map, at - 1)

(* Json::insert -> HashMap::insert: the value of a present key is          *)
(* replaced in place; a new key's entry lands at position at of the        *)
(* iteration order.                                                        *)
InsertAt(map, key, value, at) ==
    LET i == Lookup(map, key)
    IN  IF i # 0 THEN [map EXCEPT ![i].v = value]
        ELSE Prefix(map, at - 1) \o <<Entry(key, value)>> \o Suffix(map, at - 1)

(* the insert of a deterministic run: the new entry goes last *)
Insert(map, key, value) == InsertAt(map, key, value, Len(map) + 1)

(* Json::get: NoValue is None *)
Get(map, key) ==
    LET i == Lookup(map, key) IN IF i = 0 THEN NoValue ELSE map[i].v

ContainsKey(map, key) == Lookup(map, key) # 0

(* Json::remove *)
Remove(map, key) ==
    LET i == Lookup(map, key)
    IN  IF i = 0 THEN map ELSE Prefix(map, i - 1) \o Suffix(map, i)

(* Json::clear *)
clear(map) == <<>>

(* Json::update: insert every entry of other, in other's iteration order;  *)
(* ats[i] is where a new key of the i-th entry lands                       *)
RECURSIVE UpdateAt(_, _, _)
UpdateAt(map, other, ats) ==
    IF other = <<>> THEN map
    ELSE UpdateAt(InsertAt(map, other[1].k, other[1].v,
                           IF Head(ats) > Len(map) + 1 THEN Len(map) + 1 ELSE Head(ats)),
                  Tail(other), Tail(ats))

(***************************************************************************)
(* Serializers.                                                            *)
(***************************************************************************)
(* str::replace of one character by a text *)
RECURSIVE Replace(_, _, _)
Replace(s, c, rep) ==
    IF s = <<>> THEN <<>>
    ELSE (IF Head(s) = c THEN rep ELSE <<Head(s)>>) \o Replace(Tail(s), c, rep)

(* "\"{}\"" of s.replace('\\', "\\\\").replace('"', "\\\"") *)
QuoteString(s) ==
    <<QUOTE>> \o Replace(Replace(s, BSLASH, <<BSLASH, BSLASH>>), QUOTE, <<BSLASH, QUOTE>>)
        \o <<QUOTE>>

RECURSIVE DisplayDtype(_)
RECURSIVE DisplayJson(_)
RECURSIVE DisplayItems(_)
(* impl fmt::Display for JsonDtype *)
DisplayDtype(v) ==
    CASE v.tag = "String"  -> QuoteString(v.s)
      [] v.tag \in {"Integer", "Float"} -> DisplayNum(v)
      [] v.tag = "Object"  -> DisplayJson(v.map)
      [] v.tag = "Array"   -> <<"[">> \o DisplayItems(v.arr) \o <<"]">>
      [] v.tag = "Boolean" -> IF v.b THEN <<"t", "r", "u", "e">> ELSE <<"f", "a", "l", "s", "e">>
      [] OTHER             -> <<"n", "u", "l", "l">>

DisplayItems(items) ==
    Cat([i \in 1..Len(items) |->
            (IF i > 1 THEN <<",", " ">> ELSE <<>>) \o DisplayDtype(items[i])])

(* impl fmt::Display for Json: "{}: {}" of key and value, whatever the key *)
DisplayJson(map) ==
    <<"{">>
      \o Cat([i \in 1..Len(map) |->
                (IF i > 1 THEN <<",", " ">> ELSE <<>>)
                    \o DisplayDtype(map[i].k) \o <<":", " ">> \o DisplayDtype(map[i].v)])
      \o <<"}">>

(* the key as both serializers write it at the level they handle *)
KeyText(key) ==
    IF key.tag = "String" THEN DisplayDtype(key)
    ELSE <<QUOTE>> \o DisplayDtype(key) \o <<QUOTE>>

(* Json::stringify *)
stringify(map) ==
    <<"{">>
      \o Cat([i \in 1..Len(map) |->
                (IF i > 1 THEN <<",", " ">> ELSE <<>>)
                    \o KeyText(map[i].k) \o <<":", " ">> \o DisplayDtype(map[i].v)])
      \o <<"}">>

RECURSIVE dtype_stringify_pretty(_, _, _)
RECURSIVE _stringify_pretty(_, _, _)
(* JsonDtype::stringify_pretty *)
dtype_stringify_pretty(v, indent, inc) ==
    CASE v.tag = "Object" -> _stringify_pretty(v.map, indent, inc)
      [] v.tag = "Array"  ->
            IF Len(v.arr) = 0 THEN <<"[", "]">>
            ELSE <<"[", "\n">>
                   \o Cat([i \in 1..Len(v.arr) |->
                            (IF i > 1 THEN <<",", "\n">> ELSE <<>>)
                                \o Spaces(indent + inc)
                                \o dtype_stringify_pretty(v.arr[i], indent + inc, inc)])
                   \o <<"\n">> \o Spaces(indent) \o <<"]">>
      [] OTHER            -> DisplayDtype(v)

(* Json::_stringify_pretty *)
_stringify_pretty(map, indent, inc) ==
    IF Len(map) = 0 THEN <<"{", "}">>
    ELSE <<"{", "\n">>
           \o Cat([i \in 1..Len(map) |->
                    (IF i > 1 THEN <<",", "\n">> ELSE <<>>)
                        \o Spaces(indent + inc)
                        \o KeyText(map[i].k) \o <<":", " ">>
                        \o dtype_stringify_pretty(map[i].v, indent + inc, inc)])
           \o <<"\n">> \o Spaces(indent) \o <<"}">>

(* Json::stringify_pretty *)
stringify_pretty(map) == _stringify_pretty(map, 0, 4)

(***************************************************************************)
(* The parser: Json::parse and the parse_* functions as a machine over an  *)
(* explicit call stack.  A parser state is                                 *)
(*   status  "run", "done" (parse returned) or "panic" (fatal failure)     *)
(*   pos     the number of characters the Peekable<Chars> has yielded      *)
(*   stack   the frames of the active calls, the innermost last            *)
(*   ret     the value the last return delivered                           *)
(*   result  the Json that parse returned                                  *)
(* A frame holds the function's locals: fn (the function), pc (where it    *)
(* is), buf (string / number / boolean / null), skip, is_float, is_exp,    *)
(* arr (array), map, key, val (object), and pos0, the cursor at the first   *)
(* character of the production.  One step is one iteration of the          *)
(* innermost function's loop, up to the next call it makes or its return.  *)
(***************************************************************************)
EOF ==  "EOF"

(* json.peek(): the next character, EOF for None *)
Peek(inp, pos) == IF pos < Len(inp) THEN inp[pos + 1] ELSE EOF

Frame(fn, pc, pos0) ==
    [fn |-> fn, pc |-> pc, buf |-> <<>>, skip |-> FALSE, is_float |-> FALSE,
     is_exp |-> FALSE, arr |-> <<>>, map |-> <<>>, key |-> NoValue,
     val |-> NoValue, pos0 |-> pos0]

Top(st) == st.stack[Len(st.stack)]

SetTop(st, f) == [st EXCEPT !.stack[Len(st.stack)] = f]

Push(st, f) == [st EXCEPT !.stack = Append(@, f)]

(* panic!: the call unwinds, nothing is returned *)
Panic(st) ==
    [st EXCEPT !.status = "panic", !.stack = <<>>, !.ret = NoValue,
               !.result = NoValue]

(* return v from the innermost call: the caller goes on with v *)
Return(st, v) ==
    LET rest == Prefix(st.stack, Len(st.stack) - 1)
        c    == rest[Len(rest)]
        c2   == CASE c.fn = "array"  -> [c EXCEPT !.arr = Append(@, v)]
                  [] c.fn = "object" /\ c.pc = "key"   ->
                        [c EXCEPT !.key = v, !.pc = "colon"]
                  [] c.fn = "object" /\ c.pc = "value" ->
                        [c EXCEPT !.val = v, !.pc = "sep"]
                  [] OTHER -> [c EXCEPT !.val = v]
    IN  [st EXCEPT !.stack = [rest EXCEPT ![Len(rest)] = c2], !.ret = v]

BoolChars == {"t", "r", "u", "e", "f", "a", "l", "s"}

NullChars == {"n", "u", "l"}

(* a mutant of parse_value: '[' is not consumed when the array is entered *)
parse_value_no_advance(inp, st) ==
    LET p1 == skip_whitespaces(inp, st.pos)
        c  == Peek(inp, p1)
    IN  CASE c = QUOTE ->
               Push([st EXCEPT !.pos = p1 + 1], Frame("string", "loop", p1))
          [] c = "-" ->
               Push([st EXCEPT !.pos = p1 + 1],
                    [Frame("number", "loop", p1) EXCEPT !.buf = <<"-">>])
          [] IsDigit(c) ->
               Push([st EXCEPT !.pos = p1], Frame("number", "loop", p1))
          [] c \in {"t", "f"} ->
               Push([st EXCEPT !.pos = p1], Frame("boolean", "loop", p1))
          [] c = "n" ->
               Push([st EXCEPT !.pos = p1], Frame("null", "loop", p1))
          [] c = "[" ->
               Push([st EXCEPT !.pos = p1], Frame("array", "loop", p1))
          [] c = "{" ->
               Push([st EXCEPT !.pos = p1 + 1], Frame("object", "loop", p1))
          [] OTHER -> Panic([st EXCEPT !.pos = p1])

(* Json::parse_value: skip whitespace and enter the production the next    *)
(* character selects, up to that function's loop                           *)
parse_value(inp, st) ==
    LET p1 == skip_whitespaces(inp, st.pos)
        c  == Peek(inp, p1)
    IN  CASE c = QUOTE ->
               Push([st EXCEPT !.pos = p1 + 1], Frame("string", "loop", p1))
          [] c = "-" ->
               Push([st EXCEPT !.pos = p1 + 1],
                    [Frame("number", "loop", p1) EXCEPT !.buf = <<"-">>])
          [] IsDigit(c) ->
               Push([st EXCEPT !.pos = p1], Frame("number", "loop", p1))
          [] c \in {"t", "f"} ->
               Push([st EXCEPT !.pos = p1], Frame("boolean", "loop", p1))
          [] c = "n" ->
               Push([st EXCEPT !.pos = p1], Frame("null", "loop", p1))
          [] c = "[" ->
               Push([st EXCEPT !.pos = p1 + 1], Frame("array", "loop", p1))
          [] c = "{" ->
               Push([st EXCEPT !.pos = p1 + 1], Frame("object", "loop", p1))
          [] OTHER -> Panic([st EXCEPT !.pos = p1])

(* a mutant of parse: text after the top-level value is a failure *)
parse_strict_tail(inp, st) ==
    LET f  == Top(st)
        p1 == skip_whitespaces(inp, st.pos)
        c  == Peek(inp, p1)
    IN  IF f.pc = "start"
        THEN CASE c = "{" ->
                    Push(SetTop([st EXCEPT !.pos = p1 + 1], [f EXCEPT !.pc = "object"]),
                         Frame("object", "loop", p1))
               [] c = "[" ->
                    Push(SetTop([st EXCEPT !.pos = p1 + 1], [f EXCEPT !.pc = "array"]),
                         Frame("array", "loop", p1))
               [] OTHER -> Panic([st EXCEPT !.pos = p1])
        ELSE IF c # EOF THEN Panic([st EXCEPT !.pos = p1])
        ELSE [st EXCEPT !.status = "done", !.stack = <<>>,
                        !.result = IF f.pc = "object" THEN f.val
                                   ELSE JObject(Insert(<<>>, JString(<<"d", "a", "t", "a">>),
                                                       f.val))]

(* Json::parse: the dispatch on the first character, and the wrapping of   *)
(* what the callee returned                                                *)
parse(inp, st) ==
    LET f  == Top(st)
        p1 == skip_whitespaces(inp, st.pos)
        c  == Peek(inp, p1)
    IN  IF f.pc = "start"
        THEN CASE c = "{" ->
                    Push(SetTop([st EXCEPT !.pos = p1 + 1], [f EXCEPT !.pc = "object"]),
                         Frame("object", "loop", p1))
               [] c = "[" ->
                    Push(SetTop([st EXCEPT !.pos = p1 + 1], [f EXCEPT !.pc = "array"]),
                         Frame("array", "loop", p1))
               [] OTHER -> Panic([st EXCEPT !.pos = p1])
        ELSE [st EXCEPT !.status = "done", !.stack = <<>>,
                        !.result = IF f.pc = "object" THEN f.val
                                   ELSE JObject(Insert(<<>>, JString(<<"d", "a", "t", "a">>),
                                                       f.val))]

(* a mutant of parse_string: the backslash before a character that is not *)
(* an escape is copied                                                     *)
parse_string_verbatim(inp, st) ==
    LET f  == Top(st)
        ch == Peek(inp, st.pos)
        nx == [st EXCEPT !.pos = st.pos + 1]
    IN  CASE ch = EOF -> Panic(st)
          [] ch = BSLASH ->
               IF f.skip
               THEN SetTop(nx, [f EXCEPT !.buf = Append(@, ch), !.skip = FALSE])
               ELSE SetTop(nx, [f EXCEPT !.skip = TRUE])
          [] ch = QUOTE ->
               IF f.skip
               THEN SetTop(nx, [f EXCEPT !.buf = Append(@, ch), !.skip = FALSE])
               ELSE Return(nx, JString(f.buf))
          [] OTHER ->
               SetTop(nx, [f EXCEPT !.buf = (IF f.skip THEN Append(@, BSLASH) ELSE @) \o <<ch>>,
                                    !.skip = FALSE])

(* Json::parse_string: one iteration of the while loop *)
parse_string(inp, st) ==
    LET f  == Top(st)
        ch == Peek(inp, st.pos)
        nx == [st EXCEPT !.pos = st.pos + 1]
    IN  CASE ch = EOF -> Panic(st)
          [] ch = BSLASH ->
               IF f.skip
               THEN SetTop(nx, [f EXCEPT !.buf = Append(@, ch), !.skip = FALSE])
               ELSE SetTop(nx, [f EXCEPT !.skip = TRUE])
          [] ch = QUOTE ->
               IF f.skip
               THEN SetTop(nx, [f EXCEPT !.buf = Append(@, ch), !.skip = FALSE])
               ELSE Return(nx, JString(f.buf))
          [] OTHER ->
               SetTop(nx, [f EXCEPT !.buf = Append(@, ch), !.skip = FALSE])

(* a mutant of parse_number: an exponent makes the literal a float *)
parse_number_exp_float(inp, st) ==
    LET f  == Top(st)
        ch == Peek(inp, st.pos)
        nx == [st EXCEPT !.pos = st.pos + 1]
        r  == IF f.is_float THEN ParseF64(f.buf) ELSE ParseI128(f.buf)
    IN  CASE ch = EOF -> Panic(st)
          [] ch = "." ->
               IF f.is_float \/ f.is_exp THEN Panic(st)
               ELSE SetTop(nx, [f EXCEPT !.buf = Append(@, ch), !.is_float = TRUE])
          [] ch \in {"e", "E"} ->
               IF f.is_exp THEN Panic(st)
               ELSE SetTop(nx, [f EXCEPT !.buf = Append(@, ch), !.is_exp = TRUE,
                                         !.is_float = TRUE])
          [] IsDigit(ch) -> SetTop(nx, [f EXCEPT !.buf = Append(@, ch)])
          [] OTHER -> IF r.ok THEN Return(st, r.val) ELSE Panic(st)

(* Json::parse_number: one iteration of the while loop *)
parse_number(inp, st) ==
    LET f  == Top(st)
        ch == Peek(inp, st.pos)
        nx == [st EXCEPT !.pos = st.pos + 1]
        r  == IF f.is_float THEN ParseF64(f.buf) ELSE ParseI128(f.buf)
    IN  CASE ch = EOF -> Panic(st)
          [] ch = "." ->
               IF f.is_float \/ f.is_exp THEN Panic(st)
               ELSE SetTop(nx, [f EXCEPT !.buf = Append(@, ch), !.is_float = TRUE])
          [] ch \in {"e", "E"} ->
               IF f.is_exp THEN Panic(st)
               ELSE SetTop(nx, [f EXCEPT !.buf = Append(@, ch), !.is_exp = TRUE])
          [] IsDigit(ch) -> SetTop(nx, [f EXCEPT !.buf = Append(@, ch)])
          [] OTHER -> IF r.ok THEN Return(st, r.val) ELSE Panic(st)

(* Json::parse_boolean: one iteration of the while loop *)
parse_boolean(inp, st) ==
    LET f  == Top(st)
        ch == Peek(inp, st.pos)
        nx == [st EXCEPT !.pos = st.pos + 1]
    IN  CASE ch = EOF -> Panic(st)
          [] ch \in BoolChars -> SetTop(nx, [f EXCEPT !.buf = Append(@, ch)])
          [] OTHER ->
               IF f.buf = <<"t", "r", "u", "e">> THEN Return(st, JBoolean(TRUE))
               ELSE IF f.buf = <<"f", "a", "l", "s", "e">> THEN Return(st, JBoolean(FALSE))
               ELSE Panic(st)

(* Json::parse_null: one iteration of the while loop *)
parse_null(inp, st) ==
    LET f  == Top(st)
        ch == Peek(inp, st.pos)
        nx == [st EXCEPT !.pos = st.pos + 1]
    IN  CASE ch = EOF -> Panic(st)
          [] ch \in NullChars -> SetTop(nx, [f EXCEPT !.buf = Append(@, ch)])
          [] OTHER ->
               IF f.buf = <<"n", "u", "l", "l">> THEN Return(st, JNull) ELSE Panic(st)

(* a mutant of parse_array: a comma must be followed by a member *)
parse_array_strict(inp, st) ==
    LET f  == Top(st)
        p1 == skip_whitespaces(inp, st.pos)
        c  == Peek(inp, p1)
        at == [st EXCEPT !.pos = p1]
    IN  CASE Peek(inp, st.pos) = EOF -> Panic(st)
          [] c = EOF -> Panic(at)
          [] c = "]" -> Return([st EXCEPT !.pos = p1 + 1], JArray(f.arr))
          [] c = "," -> IF Peek(inp, p1 + 1) \in {"]", ","} THEN Panic(at)
                        ELSE [st EXCEPT !.pos = p1 + 1]
          [] OTHER   -> parse_value(inp, at)

(* Json::parse_array: one iteration of the while loop *)
parse_array(inp, st) ==
    LET f  == Top(st)
        p1 == skip_whitespaces(inp, st.pos)
        c  == Peek(inp, p1)
        at == [st EXCEPT !.pos = p1]
    IN  CASE Peek(inp, st.pos) = EOF -> Panic(st)
          [] c = EOF -> Panic(at)
          [] c = "]" -> Return([st EXCEPT !.pos = p1 + 1], JArray(f.arr))
          [] c = "," -> [st EXCEPT !.pos = p1 + 1]
          [] OTHER   -> parse_value(inp, at)

(* a mutant of parse_object: the end of the input ends the object *)
parse_object_eof_ok(inp, st, ins) ==
    LET f   == Top(st)
        p1  == skip_whitespaces(inp, st.pos)
        c   == Peek(inp, p1)
        at  == [st EXCEPT !.pos = p1]
        nx  == [st EXCEPT !.pos = p1 + 1]
        obj == InsertAt(f.map, f.key, f.val,
                        IF ins = 0 THEN Len(f.map) + 1 ELSE ins)
    IN  CASE f.pc = "loop" ->
               IF Peek(inp, st.pos) = EOF THEN Return(st, JObject(f.map))
               ELSE IF c = "}" THEN Return(nx, JObject(f.map))
               ELSE parse_value(inp, SetTop(at, [f EXCEPT !.pc = "key"]))
          [] f.pc = "colon" ->
               IF c = ":" THEN parse_value(inp, SetTop(nx, [f EXCEPT !.pc = "value"]))
               ELSE Panic(at)
          [] OTHER ->
               IF c = ","
               THEN SetTop(nx, [f EXCEPT !.map = obj, !.pc = "loop",
                                         !.key = NoValue, !.val = NoValue])
               ELSE IF c = "}" THEN Return(nx, JObject(obj))
               ELSE Panic(at)

(* Json::parse_object: the while loop, in the three stretches between its  *)
(* two calls of parse_value.  ins is where the HashMap puts a new key      *)
(* (0: last).                                                              *)
parse_object(inp, st, ins) ==
    LET f   == Top(st)
        p1  == skip_whitespaces(inp, st.pos)
        c   == Peek(inp, p1)
        at  == [st EXCEPT !.pos = p1]
        nx  == [st EXCEPT !.pos = p1 + 1]
        obj == InsertAt(f.map, f.key, f.val,
                        IF ins = 0 THEN Len(f.map) + 1 ELSE ins)
    IN  CASE f.pc = "loop" ->
               IF Peek(inp, st.pos) = EOF THEN Panic(st)
               ELSE IF c = "}" THEN Return(nx, JObject(f.map))
               ELSE parse_value(inp, SetTop(at, [f EXCEPT !.pc = "key"]))
          [] f.pc = "colon" ->
               IF c = ":" THEN parse_value(inp, SetTop(nx, [f EXCEPT !.pc = "value"]))
               ELSE Panic(at)
          [] OTHER ->
               IF c = ","
               THEN SetTop(nx, [f EXCEPT !.map = obj, !.pc = "loop",
                                         !.key = NoValue, !.val = NoValue])
               ELSE IF c = "}" THEN Return(nx, JObject(obj))
               ELSE Panic(at)

(* one step of the innermost call *)
Step(inp, st, ins) ==
    LET fn == Top(st).fn
    IN  CASE fn = "parse"   -> parse(inp, st)
          [] fn = "string"  -> parse_string(inp, st)
          [] fn = "number"  -> parse_number(inp, st)
          [] fn = "boolean" -> parse_boolean(inp, st)
          [] fn = "null"    -> parse_null(inp, st)
          [] fn = "array"   -> parse_array(inp, st)
          [] OTHER          -> parse_object(inp, st, ins)

Start ==
    [status |-> "run", pos |-> 0, stack |-> <<Frame("parse", "start", 0)>>,
     ret |-> NoValue, result |-> NoValue]

RECURSIVE Run(_, _)
Run(inp, st) == IF st.status # "run" THEN st ELSE Run(inp, Step(inp, st, 0))

(* Json::parse(text), run to its end with every new key put last *)
Parse(text) == Run(text, Start)

(***************************************************************************)
(* The state.                                                              *)
(*   input, status, pos, stack, ret, result : one call of Json::parse      *)
(*   out  : the text Json::stringify gave for the parsed Json (dumps)      *)
(*   o, p : two Json objects a caller builds with the map API              *)
(***************************************************************************)
VARIABLES input, status, pos, stack, ret, result, out, o, p

vars == <<input, status, pos, stack, ret, result, out, o, p>>

parserVars == <<input, status, pos, stack, ret, result, out>>

St == [status |-> status, pos |-> pos, stack |-> stack, ret |-> ret,
       result |-> result]

(***************************************************************************)
(* Input texts.                                                            *)
(***************************************************************************)
SeqsUpTo(S, n) == UNION {[1..k -> S] : k \in 0..n}

T_a == <<QUOTE, "a", QUOTE>>

T_b == <<QUOTE, "b", QUOTE>>

T_s1 == <<QUOTE, "1", QUOTE>>

T_bs == <<QUOTE, BSLASH, BSLASH, QUOTE>>

T_q == <<QUOTE, BSLASH, QUOTE, QUOTE>>

T_true == <<"t", "r", "u", "e">>

T_false == <<"f", "a", "l", "s", "e">>

T_null == <<"n", "u", "l", "l">>

(* a string literal: every body over n, backslash and quote *)
StrAlphabet == {"n", BSLASH, QUOTE}

StrDocs ==
    {<<"[", QUOTE>> \o body \o <<QUOTE, "]">> : body \in SeqsUpTo(StrAlphabet, MaxStrLen)}

(* a number literal: every text over the characters parse_number reads,    *)
(* closed by ']' or cut off by the end of the input                        *)
NumAlphabet == {"-", "0", "1", ".", "e", "E"}

NumDocs ==
    {<<"[">> \o lit \o term :
        lit \in SeqsUpTo(NumAlphabet, MaxNumLen) \ {<<>>}, term \in {<<"]">>, <<>>}}

(* the ends of the i128 range and their neighbours outside it *)
LimitDocs ==
    {<<"[">> \o I128_MAX_DIGITS \o <<"]">>,
     <<"[">> \o I128_MIN_DIGITS \o <<"]">>,
     <<"[", "-">> \o I128_MIN_DIGITS \o <<"]">>,
     <<"[", "-">> \o Prefix(I128_MIN_DIGITS, 38) \o <<"9", "]">>}

(* arrays and objects whose members and commas come in every order *)
ArrToks == {<<"1">>, <<",">>}

ObjToks == {T_a \o <<":", "1">>, T_b \o <<":", "2">>, <<",">>}

CommaArrDocs ==
    {<<"[">> \o Cat(toks) \o <<"]">> : toks \in SeqsUpTo(ArrToks, MaxCommaToks)}

CommaObjDocs ==
    {<<"{">> \o Cat(toks) \o <<"}">> : toks \in SeqsUpTo(ObjToks, MaxCommaToks)}

(* documents over every variant, as leaf and as key, nested MaxDepth deep *)
LeafToks ==
    {T_a, T_bs, T_q, <<"1">>, <<"-", "1">>, <<"1", ".", "5">>, <<"1", ".", "0">>,
     <<"-", "0", ".", "0">>, T_true, T_null}

KeyToks ==
    {T_a, T_s1, <<"1">>, T_true, T_null, <<"[", "1", "]">>, <<"[">> \o T_a \o <<"]">>,
     <<"1", ".", "5">>, <<"1", ".", "0">>, <<"{", "1", ":", "1", "}">>}

Members == {k \o <<":", " ">> \o v : k \in KeyToks, v \in {T_a, <<"1">>, <<"1", ".", "5">>}}
             \cup {T_a \o <<":">> \o v : v \in LeafToks}

BaseDocs ==
    {<<"{">> \o m \o <<"}">> : m \in Members}
      \cup {<<"{">> \o k1 \o <<":", "1", ",">> \o k2 \o <<":", "2", "}">> :
              k1 \in {<<"1">>, T_a, T_true}, k2 \in {T_s1, T_a, T_b, <<"1">>}}
      \cup {<<"[">> \o v \o <<"]">> : v \in LeafToks}
      \cup {<<"{", "}">>, <<"[", "]">>, <<"[", "1", ",", " ">> \o T_false \o <<"]">>}

Wrap(x) == {<<"{">> \o T_a \o <<":", " ">> \o x \o <<"}">>, <<"[">> \o x \o <<"]">>}

RECURSIVE NestedDocs(_)
NestedDocs(d) ==
    IF d <= 1 THEN BaseDocs
    ELSE LET inner == NestedDocs(d - 1)
         IN  inner \cup UNION {Wrap(x) : x \in inner}

MaxDepth == 2

ValueDocs == NestedDocs(MaxDepth)

(* one document cut off after each of its characters, and documents with   *)
(* text after the closing bracket                                          *)
CutDoc ==
    <<" ", "{">> \o T_a \o <<":", " ", "[">> \o T_true \o <<",">> \o T_null
        \o <<",", " ", "-", "1", ".", "5", "]", " ", ",", "\n">> \o T_b
        \o <<" ", ":", "{", "}", "\t", "}">>

CutDocs == {Prefix(CutDoc, n) : n \in 0..Len(CutDoc)}

TailDocs ==
    {<<"{", "}", "x">>, <<"[", "1", "]", "]">>, <<"{">> \o T_a \o <<":", "1", "}", "{">>,
     <<"[", "]", " ", "[", "]">>}

Inputs ==
    StrDocs \cup NumDocs \cup LimitDocs \cup CommaArrDocs \cup CommaObjDocs
        \cup ValueDocs \cup CutDocs \cup TailDocs

(***************************************************************************)
(* SpecParse: one call of Json::parse on an input text, then dumps.        *)
(***************************************************************************)
InitParse ==
    /\ input \in Inputs
    /\ status = Start.status
    /\ pos = Start.pos
    /\ stack = Start.stack
    /\ ret = Start.ret
    /\ result = Start.result
    /\ out = <<>>
    /\ o = <<>>
    /\ p = <<>>

Becomes(st) ==
    /\ status' = st.status
    /\ pos' = st.pos
    /\ stack' = st.stack
    /\ ret' = st.ret
    /\ result' = st.result
    /\ UNCHANGED <<input, out, o, p>>

Running(fn) == status = "run" /\ Top(St).fn = fn

ParseStep == Running("parse") /\ Becomes(parse(input, St))

ParseStringStep == Running("string") /\ Becomes(parse_string(input, St))

ParseNumberStep == Running("number") /\ Becomes(parse_number(input, St))

ParseBooleanStep == Running("boolean") /\ Becomes(parse_boolean(input, St))

ParseNullStep == Running("null") /\ Becomes(parse_null(input, St))

ParseArrayStep == Running("array") /\ Becomes(parse_array(input, St))

ParseObjectStep ==
    /\ Running("object")
    /\ \E ins \in (IF Top(St).pc = "sep" THEN 1..(Len(Top(St).map) + 1) ELSE {0}) :
          Becomes(parse_object(input, St, ins))

(* Json::dumps: the compact serialisation of the parsed Json *)
Dumps ==
    /\ status = "done"
    /\ out = <<>>
    /\ out' = stringify(result.map)
    /\ UNCHANGED <<input, status, pos, stack, ret, result, o, p>>

NextParse ==
    \/ ParseStep
    \/ ParseStringStep
    \/ ParseNumberStep
    \/ ParseBooleanStep
    \/ ParseNullStep
    \/ ParseArrayStep
    \/ ParseObjectStep
    \/ Dumps

SpecParse == InitParse /\ [][NextParse]_vars

(***************************************************************************)
(* Spec: a caller working on two Json objects with the map API.            *)
(***************************************************************************)
K_a == JString(<<"a">>)

K_1 == JInteger(FALSE, <<"1">>)

K_true == JBoolean(TRUE)

ApiKeys == {K_a, K_1, K_true}

V_1 == JInteger(FALSE, <<"1">>)

V_obj == JObject(<<Entry(K_1, K_a)>>)

ApiVals == {V_1, V_obj}

Init ==
    /\ o = <<>>
    /\ p = <<>>
    /\ input = <<>>
    /\ status = "idle"
    /\ pos = 0
    /\ stack = <<>>
    /\ ret = NoValue
    /\ result = NoValue
    /\ out = <<>>

InsertO(k, v) ==
    /\ \E at \in 1..(Len(o) + 1) : o' = InsertAt(o, k, v, at)
    /\ Len(o') <= MaxEntries
    /\ UNCHANGED <<p, parserVars>>

RemoveO(k) ==
    /\ o' = Remove(o, k)
    /\ UNCHANGED <<p, parserVars>>

ClearO ==
    /\ o' = clear(o)
    /\ UNCHANGED <<p, parserVars>>

UpdateO ==
    /\ \E ats \in [1..Len(p) -> 1..(MaxEntries + 1)] : o' = UpdateAt(o, p, ats)
    /\ Len(o') <= MaxEntries
    /\ UNCHANGED <<p, parserVars>>

InsertP(k, v) ==
    /\ \E at \in 1..(Len(p) + 1) : p' = InsertAt(p, k, v, at)
    /\ Len(p') <= MaxEntries
    /\ UNCHANGED <<o, parserVars>>

ClearP ==
    /\ p' = clear(p)
    /\ UNCHANGED <<o, parserVars>>

Next ==
    \/ \E k \in ApiKeys, v \in ApiVals : InsertO(k, v)
    \/ \E k \in ApiKeys : RemoveO(k)
    \/ ClearO
    \/ UpdateO
    \/ \E k \in ApiKeys, v \in ApiVals : InsertP(k, v)
    \/ ClearP

Spec == Init /\ [][Next]_vars

(***************************************************************************)
(* Claims about the map API, the serializers and the hash, under Spec.     *)
(***************************************************************************)
UniqueKeys(map) ==
    \A i, j \in 1..Len(map) : i # j => ~JsonEq(map[i].k, map[j].k)

(* Json::contains_key and Json::get agree on presence *)
Present(map, k) == ContainsKey(map, k) /\ Get(map, k) # NoValue

Absent(map, k) == ~ContainsKey(map, k) /\ Get(map, k) = NoValue

Untouched(before, after, keys) == \A k \in keys : Get(after, k) = Get(before, k)

InsertPost(before, after, k, v) ==
    /\ UniqueKeys(after)
    /\ Get(after, k) = v
    /\ Present(after, k)
    /\ Untouched(before, after, ApiKeys \ {k})

RemovePost(before, after, k) ==
    /\ UniqueKeys(after)
    /\ Absent(after, k)
    /\ Untouched(before, after, ApiKeys \ {k})

UpdatePost(before, other, after) ==
    /\ UniqueKeys(after)
    /\ \A k \in ApiKeys :
          /\ ContainsKey(after, k) <=> (ContainsKey(before, k) \/ ContainsKey(other, k))
          /\ ContainsKey(other, k) => Get(after, k) = Get(other, k)
          /\ ~ContainsKey(other, k) => Get(after, k) = Get(before, k)

C5_HashConsistentWithEq ==
    JsonEq(JObject(o), JObject(p)) => HashDtype(JObject(o)) = HashDtype(JObject(p))

(* the text without its spaces, tabs and newlines *)
StripWs(text) == SelectSeq(text, LAMBDA c : ~IsWs(c))

(* C3: for every Object, stringify_pretty and stringify agree once spaces, *)
(* tabs and newlines are removed, non-String keys at every nesting level   *)
(* included.                                                               *)
C3_PrettyAgreesWithCompact ==
    StripWs(stringify_pretty(o)) = StripWs(stringify(o))

(***************************************************************************)
(* Claims about the parser and the round trip, under SpecParse.            *)
(***************************************************************************)
Terminal == status \in {"done", "panic"}

Returns(fn) ==
    /\ status = "run"
    /\ stack # <<>>
    /\ Top(St).fn = fn
    /\ status' = "run"
    /\ Len(stack') < Len(stack)

RoundTrips ==
    LET r == Parse(out) IN r.status = "done" /\ JsonEq(r.result, result)

(* C1: the round trip law.  For every accepted text s, parsing the compact *)
(* serialisation of parse(s) ends without fatal failure and gives a Json   *)
(* equal to parse(s), non-String keys and Float leaves included.           *)
C1_RoundTrip == out # <<>> => RoundTrips

(* the payload the claim describes: backslash-backslash and                *)
(* backslash-quote are decoded, everything else is copied                  *)
RECURSIVE VerbatimDecode(_)
VerbatimDecode(raw) ==
    IF raw = <<>> THEN <<>>
    ELSE IF raw[1] = BSLASH /\ Len(raw) >= 2 /\ raw[2] \in {BSLASH, QUOTE}
         THEN <<raw[2]>> \o VerbatimDecode(Suffix(raw, 2))
         ELSE <<raw[1]>> \o VerbatimDecode(Tail(raw))

(* a backslash is dropped and the character after it is copied *)
RECURSIVE EscapeDecode(_)
EscapeDecode(raw) ==
    IF raw = <<>> THEN <<>>
    ELSE IF raw[1] = BSLASH /\ Len(raw) >= 2
         THEN <<raw[2]>> \o EscapeDecode(Suffix(raw, 2))
         ELSE <<raw[1]>> \o EscapeDecode(Tail(raw))

(* the index of the first quote after index i that no backslash escapes,   *)
(* 0 when there is none                                                    *)
RECURSIVE ClosingQuote(_, _)
ClosingQuote(inp, i) ==
    IF i >= Len(inp) THEN 0
    ELSE IF inp[i + 1] = BSLASH THEN ClosingQuote(inp, i + 2)
    ELSE IF inp[i + 1] = QUOTE THEN i + 1
    ELSE ClosingQuote(inp, i + 1)

(* the characters between the opening quote and the closing quote of the   *)
(* string that returns in this step                                        *)
RawString == SubSeq(input, Top(St).pos0 + 2, pos' - 1)

RECURSIVE KeepFrom(_, _)
KeepFrom(t, i) ==
    IF i > Len(t) THEN <<>>
    ELSE LET leading == \A j \in 2..i : t[j] = ","
             surplus ==
               /\ t[i] = ","
               /\ IF leading THEN t[1] = "["
                  ELSE i = Len(t) \/ t[i + 1] \in {",", "]", "}"}
         IN  (IF surplus THEN <<>> ELSE <<t[i]>>) \o KeepFrom(t, i + 1)

SurplusRemoved(t) == KeepFrom(t, 1)

(* the object text without its single trailing comma *)
TrailingRemoved(t) ==
    IF Len(t) >= 3 /\ t[Len(t) - 1] = "," /\ t[Len(t) - 2] \notin {",", "{"}
    THEN Prefix(t, Len(t) - 2) \o <<t[Len(t)]>>
    ELSE t

SameAs(r) == r.status = "done" => (status = "done" /\ JsonEq(result, r.result))

(* C4 as stated: in arrays and in objects, trailing and repeated commas    *)
(* are tolerated (and a leading comma in an array): the text is accepted   *)
(* and parses to the value of the text without the surplus commas.         *)
C4_CommasTolerated ==
    (Terminal /\ input \in CommaArrDocs \cup CommaObjDocs)
        => SameAs(Parse(SurplusRemoved(input)))

(* C4 amended: in arrays leading, trailing and repeated commas are         *)
(* skipped, and the text parses to the value of the text without them; in  *)
(* objects only one trailing comma after the last member is tolerated,     *)
(* and a leading or a repeated comma is a fatal failure.                   *)
C4_CommasArraysOnly ==
    /\ (Terminal /\ input \in CommaArrDocs)
          => /\ status = "done"
             /\ SameAs(Parse(SurplusRemoved(input)))
    /\ (Terminal /\ input \in CommaObjDocs)
          => /\ SameAs(Parse(TrailingRemoved(input)))
             /\ (input[2] = "," /\ Len(input) > 2) => status = "panic"
             /\ (\E i \in 1..(Len(input) - 1) : input[i] = "," /\ input[i + 1] = ",")
                   => status = "panic"

(* C4's case: an array with a doubled and a trailing comma has been        *)
(* parsed to its two members.                                              *)
C4_Witness ==
    /\ input = <<"[", "1", ",", ",", "1", ",", "]">>
    /\ status = "done"
    /\ ret.tag = "Array"
    /\ Len(ret.arr) = 2

(* C7: truncated input is fatal.  Whenever a parse has ended, on any       *)
(* input, with the cursor at pos, the parse of every shorter prefix of the *)
(* input (the input cut off before the parse could end) ends in fatal      *)
(* failure; and no cut of the document CutDoc before its closing brace     *)
(* returns a Json.                                                         *)
C7_TruncatedFatal ==
    /\ Terminal => \A n \in 0..(pos - 1) : Parse(Prefix(input, n)).status = "panic"
    /\ (input \in CutDocs /\ Len(input) < Len(CutDoc)) => status # "done"

(* C7's case: the parse of a document cut off inside a number, after the   *)
(* whole cut text has been read, has failed.                               *)
C7_Witness ==
    /\ input \in CutDocs
    /\ Len(input) < Len(CutDoc)
    /\ Len(input) >= 12
    /\ pos = Len(input)
    /\ IsDigit(input[Len(input)])
    /\ status = "panic"

(* the characters parse_number takes into its buffer after the sign *)
NumSet == {DigitChars[i] : i \in 1..10} \cup {".", "e", "E"}

(* the end of the run of NumSet characters that starts after index i *)
RECURSIVE RunEnd(_, _)
RunEnd(inp, i) ==
    IF i < Len(inp) /\ inp[i + 1] \in NumSet THEN RunEnd(inp, i + 1) ELSE i

(* the literal that starts after index start: an optional '-' and the      *)
(* maximal run of NumSet characters                                        *)
Literal(inp, start) ==
    SubSeq(inp, start + 1,
           RunEnd(inp, IF Peek(inp, start) = "-" THEN start + 1 ELSE start))

Count(s, cs) == Cardinality({i \in 1..Len(s) : s[i] \in cs})

(* the literal is an optional '-' and digits, of a value in the i128 range *)
InI128(lit) ==
    LET neg == lit # <<>> /\ lit[1] = "-"
        d   == IF neg THEN Tail(lit) ELSE lit
        mag == StripLeadingZeros(d)
    IN  /\ d # <<>>
        /\ \A i \in 1..Len(d) : IsDigit(d[i])
        /\ MagLeq(mag, IF neg THEN I128_MIN_DIGITS ELSE I128_MAX_DIGITS)

(* the decimal text of the integer the literal denotes *)
CanonInt(lit) ==
    LET neg == lit # <<>> /\ lit[1] = "-"
        mag == StripLeadingZeros(IF neg THEN Tail(lit) ELSE lit)
    IN  IF mag = <<>> THEN <<"0">> ELSE (IF neg THEN <<"-">> ELSE <<>>) \o mag

(* C8: when parse_number returns, it has consumed exactly the literal (an  *)
(* optional '-' and the maximal run of 0..9 . e E) and left the next       *)
(* character unconsumed; the result is a Float iff the literal has a '.',  *)
(* and otherwise the Integer the literal denotes; so it never returns for  *)
(* a literal with an exponent and no '.', for a literal outside the i128   *)
(* range, or for one with a second '.' or a second 'e'/'E'.                *)
C8_NumberClassification ==
    [][Returns("number") =>
          LET lit == Literal(input, Top(St).pos0)
          IN  /\ pos' = Top(St).pos0 + Len(lit)
              /\ pos' = pos
              /\ Peek(input, pos') \notin NumSet \cup {EOF}
              /\ ret'.tag = (IF Contains(lit, ".") THEN "Float" ELSE "Integer")
              /\ ret'.tag = "Integer" =>
                    /\ Count(lit, {"e", "E"}) = 0
                    /\ InI128(lit)
                    /\ DisplayNum(ret') = CanonInt(lit)
              /\ Count(lit, {"."}) <= 1
              /\ Count(lit, {"e", "E"}) <= 1]_vars

(* C8's case: a literal with a '.' has been returned as a negative Float,  *)
(* and the ']' after it was left for parse_array.                          *)
C8_Witness ==
    /\ input \in NumDocs
    /\ status = "done"
    /\ ret.tag = "Array"
    /\ Len(ret.arr) = 1
    /\ ret.arr[1].tag = "Float"
    /\ ret.arr[1].neg
    /\ ret.arr[1].exp < 0

(* the measure that every step of the parser decreases: the characters     *)
(* left weigh 3, an active call 1, and a call that has not yet consumed    *)
(* its first character (number, boolean, null) 2 less                      *)
Rank(inp, ps, stk) ==
    LET f == stk[Len(stk)]
    IN  3 * (Len(inp) - ps) + Len(stk)
          - (IF stk # <<>> /\ f.fn \in {"number", "boolean", "null"} /\ f.buf = <<>>
             THEN 2 ELSE 0)

(* the functions of the parser: a call of one of them can always step *)
ParserFns == {"parse", "string", "number", "boolean", "null", "array", "object"}

(* C9: while the parse runs a call of the parser is active and can step;   *)
(* the cursor only moves forward and never passes the end of the input;    *)
(* every step of the parser consumes a character, makes a call, returns    *)
(* or fails; every call that returns has consumed at least one             *)
(* character; and every step decreases a measure bounded by 3 * length +   *)
(* depth, so parse ends (done or fatal failure) on every input.            *)
C9_ProgressAndTermination ==
    /\ [](status = "run" => stack # <<>> /\ Top(St).fn \in ParserFns)
    /\ [][status = "run" =>
          /\ pos' >= pos
          /\ pos' <= Len(input)
          /\ status' \in {"run", "done", "panic"}
          /\ status' = "run" =>
                /\ pos' > pos \/ Len(stack') # Len(stack)
                /\ Rank(input, pos', stack') < Rank(input, pos, stack)
                /\ Rank(input, pos', stack') >= 0
                /\ Len(stack') < Len(stack) => pos' > Top(St).pos0]_vars

(* C9's case: the parse of the nested document CutDoc has ended, with the  *)
(* cursor at the end of the input.                                         *)
C9_Witness ==
    /\ input = CutDoc
    /\ status = "done"
    /\ pos = Len(input)

Tails == {<<"x">>, <<"}">>, <<"]", "]">>, <<",", "1">>, <<" ", "{">>, <<QUOTE>>}

(* C10: parse stops at the closing bracket of the top-level value: when a  *)
(* parse has returned with the cursor at pos, the text up to pos followed  *)
(* by any tail parses to an equal Json, and so does the text up to pos     *)
(* alone.                                                                  *)
C10_TailIgnored ==
    status = "done" =>
        /\ SameAs(Parse(Prefix(input, pos)))
        /\ Parse(Prefix(input, pos)).status = "done"
        /\ \A t \in Tails :
              LET r == Parse(Prefix(input, pos) \o t)
              IN  r.status = "done" /\ r.pos = pos /\ JsonEq(r.result, result)

(* C10's case: a parse has returned on an input with text after the        *)
(* closing bracket.                                                        *)
C10_Witness ==
    /\ status = "done"
    /\ pos < Len(input)
    /\ input \in TailDocs

=============================================================================
